---- MODULE Spec2Model ----
(***************************************************************************)
(* HexapodEnv (rl_train/environments/hexapod_env.py): the learner side of  *)
(* the simulation-training link.  The model has three layers that share    *)
(* the scoring operators:                                                  *)
(*   Spec      whole calls of step() / reset() over full episodes          *)
(*   ScoreSpec compute_rewards as a function of (scoring state, obs)       *)
(*   NetSpec   step() / reset() split at their blocking recv() calls, with *)
(*             the controller's byte stream in flight                      *)
(* Reals are fixed-point integers: lengths and angles in hundredths,       *)
(* rewards in units of 1/RewardScale.                                      *)
(***************************************************************************)
EXTENDS Integers, Sequences, FiniteSets, TLC

\* ------------------------------------------------------------------ bounds
MaxSteps == 802         \* Spec: step() is not called once total_steps reached it
MaxStable == 81         \* Spec: stable_counter is not driven beyond it
MaxScoreStable == 3     \* ScoreSpec: largest stable_counter drawn by Init
MaxCalls == 2           \* NetSpec: calls of step() / reset() in a behaviour
MaxCtrlMsgs == 2        \* NetSpec: messages the controller writes in a behaviour
MaxCloses == 3          \* CloseSpec: calls of close() in a behaviour
MaxCloseSteps == 3      \* CloseSpec: steps of an episode

\* ------------------------------------------------------- program constants
OBS_SPACE_SIZE == 30
max_steps == 800
stability_threshold == 80
\* one reward unit (1.0); 3000 = lcm of the denominators met in the rewards
RewardScale == 40 * 75
h_base_stand == 300
h_base_walk == 100
LidarSentinel == 99900
\* prev_com = None: no observation scored yet (a com is a 3-tuple)
None == <<>>
\* a non-finite lidar reading (float inf), outside every finite reading drawn
Inf == 10^9

Abs(x) == IF x < 0 THEN -x ELSE x
Max(a, b) == IF a >= b THEN a ELSE b
\* Python's s[i], 0-based
At(s, i) == s[i + 1]

\* --------------------------------------------------------------- check_done
\* the stability half of check_done's condition
StabilityHolds(sc, tilted) == sc >= stability_threshold /\ tilted = FALSE

check_done(step_count, sc, tilted) ==
    (step_count >= max_steps) \/ (sc >= stability_threshold /\ tilted = FALSE)

\* ---------------------------------------------------------- compute_rewards
\* lidar_values = [v if math.isfinite(v) else 999 for v in lidar]
Sanitize(lidar) == [i \in 1..Len(lidar) |-> IF lidar[i] = Inf THEN LidarSentinel ELSE lidar[i]]

\* the height term with the counter left alone inside the band
HeightTerm_no_increment(diff, sc, tilted) ==
    IF diff <= 100
    THEN [reward |-> RewardScale, stable_counter |-> sc]
    ELSE IF diff > 400
    THEN [reward |-> -(RewardScale \div 2), stable_counter |-> 0]
    ELSE [reward |-> -(4 * RewardScale), stable_counter |-> 0]

\* the height term of stand_up: reward and stable_counter after it.
\* is_tilted is the value left by the previous scoring.
HeightTerm(diff, sc, tilted) ==
    IF diff <= 100
    THEN [reward |-> IF tilted = FALSE
                     THEN RewardScale + (RewardScale \div 20) * (sc + 1)
                     ELSE RewardScale,
          stable_counter |-> sc + 1]
    ELSE IF diff > 400
    THEN [reward |-> -(RewardScale \div 2), stable_counter |-> 0]
    ELSE [reward |-> -(4 * RewardScale), stable_counter |-> 0]

\* acceptable joint bands: offsets dC, dF, dT and amplitudes aC, aF, aT
minC == 60 - 25
maxC == 60 + 25
minF == 80 - 20
maxF == 80 + 20
minT == -240 - 5
maxT == -240 + 5

JointReward(i, v) ==
    IF i < 6 THEN (IF minC <= v /\ v <= maxC THEN RewardScale \div 5 ELSE -RewardScale)
    ELSE IF i < 12 THEN (IF minF <= v /\ v <= maxF THEN RewardScale \div 5 ELSE -RewardScale)
    ELSE (IF minT <= v /\ v <= maxT THEN RewardScale ELSE -RewardScale)

\* for i in range(18): the sum of the terms of joints i..17
RECURSIVE JointTerm(_, _)
JointTerm(joint_sensors, i) ==
    IF i >= 18 THEN 0
    ELSE JointReward(i, At(joint_sensors, i)) + JointTerm(joint_sensors, i + 1)

\* the joint readings the controller's replies carry
JointsInBand == [i \in 1..18 |-> IF i <= 6 THEN 60 ELSE IF i <= 12 THEN 80 ELSE -240]
JointsNearEdge == [i \in 1..18 |-> IF i <= 6 THEN 36 ELSE IF i <= 12 THEN 99 ELSE -244]
JointsOutOfBand == [i \in 1..18 |-> 0]
JointsShort == [i \in 1..17 |-> 0]
JointVectors == {JointsInBand, JointsNearEdge, JointsOutOfBand}

\* the loop's total for each of them, computed once
JointTotal == [js \in JointVectors |-> JointTerm(js, 0)]

\* the tilt tiers with <= in place of <
TiltTerm_inclusive(roll, pitch) ==
    IF Abs(roll) <= 10 /\ Abs(pitch) <= 10
    THEN [reward |-> 2 * RewardScale, is_tilted |-> FALSE]
    ELSE IF Abs(roll) <= 30 /\ Abs(pitch) <= 30
    THEN [reward |-> RewardScale, is_tilted |-> TRUE]
    ELSE IF Abs(roll) <= 60 /\ Abs(pitch) <= 60
    THEN [reward |-> -RewardScale, is_tilted |-> TRUE]
    ELSE [reward |-> -(3 * RewardScale), is_tilted |-> TRUE]

TiltTerm(roll, pitch) ==
    IF Abs(roll) < 10 /\ Abs(pitch) < 10
    THEN [reward |-> 2 * RewardScale, is_tilted |-> FALSE]
    ELSE IF Abs(roll) < 30 /\ Abs(pitch) < 30
    THEN [reward |-> RewardScale, is_tilted |-> TRUE]
    ELSE IF Abs(roll) < 60 /\ Abs(pitch) < 60
    THEN [reward |-> -RewardScale, is_tilted |-> TRUE]
    ELSE [reward |-> -(3 * RewardScale), is_tilted |-> TRUE]

Count(s, P(_)) == Cardinality({i \in 1..Len(s) : P(s[i])})

\* the walk reward without the max(0.0, ...) clamps
WalkReward_unclamped(com_height, theta, foot_contacts) ==
    LET reward_height == 20 - Abs(com_height - h_base_walk)
        reward_stability == 50 - Abs(theta)
        feet_on_ground == Count(foot_contacts, LAMBDA c : c > 50)
    IN  75 * reward_height + 18 * reward_stability + 100 * feet_on_ground

\* 0.5 * reward_height + 0.3 * reward_stability + 0.2 * reward_feet
WalkReward(com_height, theta, foot_contacts) ==
    LET reward_height == Max(0, 20 - Abs(com_height - h_base_walk))
        reward_stability == Max(0, 50 - Abs(theta))
        feet_on_ground == Count(foot_contacts, LAMBDA c : c > 50)
    IN  75 * reward_height + 18 * reward_stability + 100 * feet_on_ground

\* The outcome of one scoring: err is "none" when compute_rewards returns,
\* else the exception it raises; the three fields after it are the scoring
\* fields as the call leaves them (also when it raises part-way).
Scored(err, reward, pc, tilted, sc) ==
    [err |-> err, reward |-> reward, prev_com |-> pc, is_tilted |-> tilted,
     stable_counter |-> sc]

StandUpRewards(obs, pc, tilted, sc) ==
    IF Len(obs.lidar) < 2 THEN Scored("IndexError", 0, pc, tilted, sc)
    ELSE
    LET lidar_values == Sanitize(obs.lidar)
        diff == Abs(At(lidar_values, 1) - h_base_stand)
        h == HeightTerm(diff, sc, tilted)
        t == TiltTerm(At(obs.imu, 0), At(obs.imu, 1))
    IN  IF Len(obs.joint_sensors) < 18
        THEN Scored("IndexError", 0, pc, tilted, h.stable_counter)
        ELSE Scored("none", h.reward + JointTotal[obs.joint_sensors] + t.reward,
                    obs.com, t.is_tilted, h.stable_counter)

\* climb with the prev_com[2] read replaced by a default of no progress
ClimbRewards_silent_default(obs, pc, tilted, sc) ==
    IF pc = None THEN Scored("none", 0, obs.com, tilted, sc)
    ELSE Scored("none", IF At(obs.com, 2) > At(pc, 2) + 5 THEN RewardScale ELSE 0,
                obs.com, tilted, sc)

ClimbRewards(obs, pc, tilted, sc) ==
    IF pc = None THEN Scored("TypeError", 0, pc, tilted, sc)
    ELSE Scored("none", IF At(obs.com, 2) > At(pc, 2) + 5 THEN RewardScale ELSE 0,
                obs.com, tilted, sc)

\* compute_rewards with the tilt flag also updated by the walk branch
compute_rewards_walk_tilts(tsk, obs, pc, tilted, sc) ==
    IF Len(obs.imu) < 3 \/ Len(obs.com) < 3 THEN Scored("IndexError", 0, pc, tilted, sc)
    ELSE IF tsk = "stand_up" THEN StandUpRewards(obs, pc, tilted, sc)
    ELSE IF tsk = "walk"
    THEN Scored("none", WalkReward(At(obs.com, 2), At(obs.imu, 0), obs.foot_contacts),
                obs.com, TiltTerm(At(obs.imu, 0), At(obs.imu, 1)).is_tilted, sc)
    ELSE IF tsk = "climb" THEN ClimbRewards(obs, pc, tilted, sc)
    ELSE Scored("none", 0, obs.com, tilted, sc)

compute_rewards(tsk, obs, pc, tilted, sc) ==
    IF Len(obs.imu) < 3 \/ Len(obs.com) < 3 THEN Scored("IndexError", 0, pc, tilted, sc)
    ELSE IF tsk = "stand_up" THEN StandUpRewards(obs, pc, tilted, sc)
    ELSE IF tsk = "walk"
    THEN Scored("none", WalkReward(At(obs.com, 2), At(obs.imu, 0), obs.foot_contacts),
                obs.com, tilted, sc)
    ELSE IF tsk = "climb" THEN ClimbRewards(obs, pc, tilted, sc)
    ELSE Scored("none", 0, obs.com, tilted, sc)

\* ------------------------------------------------------------ observations
MkObs(joint_sensors, imu, foot_contacts, com, lidar) ==
    [joint_sensors |-> joint_sensors, imu |-> imu, foot_contacts |-> foot_contacts,
     com |-> com, lidar |-> lidar]

FeetDown == [i \in 1..6 |-> 100]
FeetUp == [i \in 1..6 |-> 0]
ComLow == <<0, 0, 100>>
ComHigh == <<0, 0, 110>>

FeetNoisy == <<100, 51, 50, 0, 300, 49>>
FeetSeven == [i \in 1..7 |-> 100]

\* obs['joint_sensors'] + obs['imu'] + obs['foot_contacts'] + obs['com']
Flatten(obs) == obs.joint_sensors \o obs.imu \o obs.foot_contacts \o obs.com

\* replies the controller gives in Spec: level or tilted, on or off height
EpisodeReplies ==
    {MkObs(JointsInBand, <<r, 0, 0>>, FeetDown, ComLow, <<0, h>>) :
        r \in {0, 20}, h \in {300, 600}}

\* ------------------------------------------------------------------- state
VARIABLES
    task,            \* self.task, fixed at construction
    prev_com,        \* self.prev_com
    is_tilted,       \* self.is_tilted
    stable_counter,  \* self.stable_counter
    total_steps,     \* self.total_steps
    last,            \* the most recent call and what it gave its caller
    pc,              \* NetSpec: where the learner is inside a call
    wire,            \* NetSpec: bytes sent by the controller, not yet read
    buffer,          \* NetSpec: reset()'s local buffer
    peer_closed,     \* NetSpec: the controller closed the connection
    stream,          \* NetSpec history: every byte the current call has read
    call,            \* NetSpec history: sends, decodes and failures of the current call
    pending,         \* NetSpec history: requests sent and not yet answered by a decoded reply
    any_raised,      \* NetSpec history: some call has raised
    calls,           \* NetSpec: calls made so far
    ctrl_msgs,       \* NetSpec: messages the controller has sent so far
    conn,            \* self.conn: "absent" until accept() returns, "open", "closed"
    sock,            \* self.sock: "absent" until socket() returns, "open", "closed"
    closes,          \* CloseSpec: calls of close() so far
    pre,             \* ScoreSpec: the scoring fields before the last scoring
    scored,          \* the observation scored last
    episode_stable   \* history: the stability condition held at a step since reset()

vars == <<task, prev_com, is_tilted, stable_counter, total_steps, last,
          pc, wire, buffer, peer_closed, stream, call, pending, any_raised,
          calls, ctrl_msgs, conn, sock, closes, pre, scored,
          episode_stable>>

scoring == <<prev_com, is_tilted, stable_counter, total_steps>>
sockets == <<conn, sock, closes>>
net == <<pc, wire, buffer, peer_closed, stream, call, pending, any_raised,
         calls, ctrl_msgs, sockets>>


Tasks == {"stand_up", "walk", "climb", "other"}

NoCall == [op |-> "none", outcome |-> "none", done |-> FALSE, reward |-> 0, sent |-> "none"]
Returned(op, done, reward, sent) ==
    [op |-> op, outcome |-> "returned", done |-> done, reward |-> reward, sent |-> sent]
Raised(op, err, sent) ==
    [op |-> op, outcome |-> err, done |-> FALSE, reward |-> 0, sent |-> sent]
\* nothing sent, decoded or failed yet in this call
NewCall == [sends |-> 0, docs |-> 0, eof |-> FALSE, undecodable |-> FALSE]

\* __init__ after the controller connected
Init ==
    /\ task \in Tasks
    /\ prev_com = None
    /\ is_tilted = TRUE
    /\ stable_counter = 0
    /\ total_steps = 0
    /\ last = NoCall
    /\ pc = "idle"
    /\ wire = <<>>
    /\ buffer = <<>>
    /\ peer_closed = FALSE
    /\ stream = <<>>
    /\ call = NewCall
    /\ pending = 0
    /\ any_raised = FALSE
    /\ calls = 0
    /\ ctrl_msgs = 0
    /\ conn = "open"
    /\ sock = "open"
    /\ closes = 0
    /\ pre = [prev_com |-> None, is_tilted |-> TRUE, stable_counter |-> 0]
    /\ scored = None
    /\ episode_stable = FALSE

\* ------------------------------------------------------- Spec: whole calls
\* step() counting a scoring that raised as a step
AfterReply_counts_raised(r) ==
    /\ prev_com' = r.prev_com
    /\ is_tilted' = r.is_tilted
    /\ stable_counter' = r.stable_counter
    /\ total_steps' = total_steps + 1
    /\ last' = IF r.err = "none"
               THEN Returned("step", check_done(total_steps, r.stable_counter, r.is_tilted),
                             r.reward, "action")
               ELSE Raised("step", r.err, "action")

\* step() from the reply on: compute_rewards, check_done on the count not
\* yet incremented, then total_steps += 1.
AfterReply(r) ==
    /\ prev_com' = r.prev_com
    /\ is_tilted' = r.is_tilted
    /\ stable_counter' = r.stable_counter
    /\ IF r.err = "none"
       THEN /\ last' = Returned("step",
                                check_done(total_steps, r.stable_counter, r.is_tilted),
                                r.reward, "action")
            /\ total_steps' = total_steps + 1
       ELSE /\ last' = Raised("step", r.err, "action")
            /\ total_steps' = total_steps

\* step(action) with the controller answering by one well-formed reply
Step(obs) ==
    /\ total_steps < MaxSteps
    /\ \E r \in {compute_rewards(task, obs, prev_com, is_tilted, stable_counter)} :
          /\ r.stable_counter <= MaxStable
          /\ AfterReply(r)
          /\ episode_stable' = (episode_stable \/ StabilityHolds(r.stable_counter, r.is_tilted))
    /\ scored' = obs
    /\ UNCHANGED <<task, net, pre>>

\* what reset() assigns before the handshake
ResetFields ==
    /\ total_steps' = 0
    /\ prev_com' = None
    /\ UNCHANGED <<is_tilted, stable_counter>>

\* reset() with the controller answering by the ack
Reset ==
    /\ ResetFields
    /\ last' = Returned("reset", FALSE, 0, "reset")
    /\ episode_stable' = FALSE
    /\ UNCHANGED <<task, net, pre, scored>>

Next ==
    \/ \E obs \in EpisodeReplies : Step(obs)
    \/ Reset

Spec == Init /\ [][Next]_vars

\* ------------------------------------- ScoreSpec: compute_rewards on its own
\* observations over the bands' interiors and edges, well-formed but for the
\* 17-joint one
ScoreReplies ==
    {MkObs(js, <<roll, pitch, 0>>, feet, com, <<0, h>>) :
        js \in {JointsInBand, JointsNearEdge, JointsOutOfBand, JointsShort},
        roll \in {-20, 0, 10, 30, 60, 70}, pitch \in {0, 45},
        feet \in {FeetDown, FeetUp}, com \in {ComLow, ComHigh},
        h \in {300, 200, 199, 500, 700, 701, Inf}}

\* observations over the walk reward's ranges: com height and tilt inside,
\* at the edge of and far beyond the tolerated error, contacts around 0.5
WalkReplies ==
    {MkObs(JointsInBand, <<theta, 0, 0>>, feet, <<0, 0, z>>, <<0, 300>>) :
        theta \in {-200, -50, -20, 0, 49, 51}, z \in {-50, 80, 90, 100, 120, 121, 500},
        feet \in {FeetDown, FeetUp, FeetNoisy}}

\* the scoring fields step() can find when it calls compute_rewards: only
\* stand_up moves is_tilted and stable_counter, climb never sets prev_com
ScoreInit ==
    /\ task \in Tasks
    /\ prev_com \in IF task = "climb" THEN {None} ELSE {None, ComLow, ComHigh}
    /\ is_tilted \in IF task = "stand_up" THEN BOOLEAN ELSE {TRUE}
    /\ stable_counter \in IF task = "stand_up" THEN 0..MaxScoreStable ELSE {0}
    /\ total_steps = IF prev_com = None THEN 0 ELSE 1
    /\ last = NoCall
    /\ pc = "idle"
    /\ wire = <<>>
    /\ buffer = <<>>
    /\ peer_closed = FALSE
    /\ stream = <<>>
    /\ call = NewCall
    /\ pending = 0
    /\ any_raised = FALSE
    /\ calls = 0
    /\ ctrl_msgs = 0
    /\ conn = "open"
    /\ sock = "open"
    /\ closes = 0
    /\ pre = [prev_com |-> prev_com, is_tilted |-> is_tilted, stable_counter |-> stable_counter]
    /\ scored = None
    /\ episode_stable = FALSE

\* one call of compute_rewards(obs) on the fields drawn
Score(obs) ==
    /\ last.op = "none"
    /\ \E r \in {compute_rewards(task, obs, prev_com, is_tilted, stable_counter)} :
          /\ prev_com' = r.prev_com
          /\ is_tilted' = r.is_tilted
          /\ stable_counter' = r.stable_counter
          /\ last' = IF r.err = "none" THEN Returned("score", FALSE, r.reward, "none")
                     ELSE Raised("score", r.err, "none")
    /\ pre' = [prev_com |-> prev_com, is_tilted |-> is_tilted,
               stable_counter |-> stable_counter]
    /\ scored' = obs
    /\ UNCHANGED <<task, total_steps, net, episode_stable>>

ScoreNext ==
    \/ \E obs \in ScoreReplies : Score(obs)
    \/ \E obs \in WalkReplies : Score(obs)

ScoreSpec == ScoreInit /\ [][ScoreNext]_vars

\* ------------------------------------------------ NetSpec: the byte stream
\* Text on the socket is a sequence of symbols.  A JSON document is two
\* symbols, its first and second half, so that a read can end inside it;
\* "nl" is a newline, "sp" a blank, "junk" text that is no JSON.
Sym(doc, half) == [doc |-> doc, half |-> half]
NL == Sym("nl", 0)
SP == Sym("sp", 0)
JUNK == Sym("junk", 0)
\* json.dumps(d)
Encode(doc) == <<Sym(doc, 1), Sym(doc, 2)>>

\* the documents the controller can write, and their decoded values
ObsDocs == {"obs_level", "obs_tilted", "obs_wide"}
DocNames == {"ack", "ping", "list"} \cup ObsDocs
IsDict(doc) == doc # "list"
\* msg.get("status")
StatusOf(doc) == IF doc = "ack" THEN "reset_complete" ELSE "None"
HasObsKeys(doc) == doc \in ObsDocs
ObsOf(doc) ==
    IF doc = "obs_level"
    THEN MkObs(JointsInBand, <<0, 0, 0>>, FeetDown, ComLow, <<0, 300>>)
    ELSE IF doc = "obs_tilted"
    THEN MkObs(JointsInBand, <<20, 0, 0>>, FeetDown, ComHigh, <<0, 600>>)
    ELSE MkObs(JointsInBand, <<0, 0, 0>>, FeetSeven, ComLow, <<0, 300>>)

IsSpace(sym) == sym.doc \in {"nl", "sp"}
RECURSIVE LStrip(_)
LStrip(t) == IF t # <<>> /\ IsSpace(Head(t)) THEN LStrip(Tail(t)) ELSE t
RECURSIVE RStrip(_)
RStrip(t) ==
    IF t # <<>> /\ IsSpace(t[Len(t)]) THEN RStrip(SubSeq(t, 1, Len(t) - 1)) ELSE t
\* str.strip()
Strip(t) == RStrip(LStrip(t))

\* json.loads(t): one whole document, blanks around it allowed; anything
\* else (nothing, part of a document, two documents, junk) fails
json_loads(t) ==
    LET c == Strip(t)
    IN  IF /\ Len(c) = 2
           /\ c[1].half = 1 /\ c[2].half = 2
           /\ c[1].doc = c[2].doc
           /\ c[1].doc \in DocNames
        THEN [ok |-> TRUE, doc |-> c[1].doc]
        ELSE [ok |-> FALSE, doc |-> "none"]

\* index of the first newline of t, 0 when it has none
RECURSIVE FindNL(_, _)
FindNL(t, i) == IF i > Len(t) THEN 0 ELSE IF t[i] = NL THEN i ELSE FindNL(t, i + 1)

\* the inner loop of reset() treating a decoded line that is no ack as an error
RECURSIVE ScanLines_rejects_other(_)
ScanLines_rejects_other(buf) ==
    LET i == FindNL(buf, 1)
        line == SubSeq(buf, 1, i - 1)
        rest == SubSeq(buf, i + 1, Len(buf))
        msg == json_loads(line)
    IN  IF i = 0 THEN [result |-> "more", buffer |-> buf]
        ELSE IF Strip(line) = <<>> THEN ScanLines_rejects_other(rest)
        ELSE IF ~msg.ok THEN [result |-> "JSONDecodeError", buffer |-> rest]
        ELSE IF StatusOf(msg.doc) = "reset_complete" THEN [result |-> "ack", buffer |-> rest]
        ELSE [result |-> "ProtocolError", buffer |-> rest]

\* while "\n" in buffer: split off a line, skip it when blank, decode it,
\* break on the ack; result "more" is the while's else branch (read again)
RECURSIVE ScanLines(_)
ScanLines(buf) ==
    LET i == FindNL(buf, 1)
        line == SubSeq(buf, 1, i - 1)
        rest == SubSeq(buf, i + 1, Len(buf))
        msg == json_loads(line)
    IN  IF i = 0 THEN [result |-> "more", buffer |-> buf]
        ELSE IF Strip(line) = <<>> THEN ScanLines(rest)
        ELSE IF ~msg.ok THEN [result |-> "JSONDecodeError", buffer |-> rest]
        ELSE IF IsDict(msg.doc) /\ StatusOf(msg.doc) = "reset_complete"
        THEN [result |-> "ack", buffer |-> rest]
        ELSE ScanLines(rest)

\* ----------------------------------------------------- NetSpec: the calls
\* what conn.recv(4096) can return: a non-empty prefix of the bytes in
\* flight, or nothing once the peer has closed and all was read
RecvEnabled == wire # <<>> \/ peer_closed
RecvLengths == IF wire # <<>> THEN 1..Len(wire) ELSE {0}

\* the call ends by raising err to its caller
Raise(op, err, sent) ==
    /\ last' = Raised(op, err, sent)
    /\ pc' = "idle"
    /\ any_raised' = TRUE

\* the second, commented-out sendall of step() (line 242) put back
SendAction_twice ==
    /\ call' = [NewCall EXCEPT !.sends = 2]
    /\ pending' = pending + 2

\* self.conn.sendall(json.dumps(action.tolist()))
SendAction ==
    /\ call' = [NewCall EXCEPT !.sends = 1]
    /\ pending' = pending + 1

\* step() decoding the handshake's leftover in front of what it reads
StepInput_with_leftover(data) == buffer \o data

\* obs = json.loads(data.decode('utf-8')): the text step() decodes is what
\* its one recv returned
StepInput(data) == data

\* step(): up to the blocking recv
StepSend ==
    /\ pc = "idle"
    /\ calls < MaxCalls
    /\ calls' = calls + 1
    /\ stream' = <<>>
    /\ \/ /\ SendAction
          /\ pc' = "step_recv"
          /\ UNCHANGED <<last, any_raised>>
       \/ /\ peer_closed
          /\ call' = NewCall
          /\ Raise("step", "BrokenPipeError", "none")
          /\ UNCHANGED pending
    /\ UNCHANGED <<task, scoring, wire, buffer, peer_closed, ctrl_msgs, sockets, pre,
                   scored, episode_stable>>

\* step(): recv, json.loads, the flattening, compute_rewards, check_done
StepRecv ==
    /\ pc = "step_recv"
    /\ RecvEnabled
    /\ \E n \in RecvLengths :
       LET data == SubSeq(wire, 1, n)
           msg == json_loads(StepInput(data))
       IN  /\ wire' = SubSeq(wire, n + 1, Len(wire))
           /\ stream' = data
           /\ IF ~msg.ok
              THEN /\ call' = [call EXCEPT !.eof = (n = 0), !.undecodable = TRUE]
                   /\ Raise("step", "JSONDecodeError", "action")
                   /\ UNCHANGED <<scoring, pending, scored, episode_stable>>
              ELSE IF ~HasObsKeys(msg.doc)
              THEN /\ call' = [call EXCEPT !.docs = 1]
                   /\ Raise("step", IF IsDict(msg.doc) THEN "KeyError" ELSE "TypeError", "action")
                   /\ pending' = pending - 1
                   /\ UNCHANGED <<scoring, scored, episode_stable>>
              ELSE \E r \in {compute_rewards(task, ObsOf(msg.doc), prev_com, is_tilted,
                                             stable_counter)} :
                   /\ call' = [call EXCEPT !.docs = 1]
                   /\ pending' = pending - 1
                   /\ scored' = ObsOf(msg.doc)
                   /\ AfterReply(r)
                   /\ episode_stable' =
                         (episode_stable \/ StabilityHolds(r.stable_counter, r.is_tilted))
                   /\ pc' = "idle"
                   /\ any_raised' = (any_raised \/ r.err # "none")
    /\ UNCHANGED <<task, buffer, peer_closed, calls, ctrl_msgs, sockets, pre>>

\* self.conn.sendall(json.dumps({'command': 'reset'}) + "\n")
SendReset ==
    /\ call' = [NewCall EXCEPT !.sends = 1]
    /\ pending' = pending + 1

\* reset(): the two assignments, the reset command, buffer = ""
ResetSend ==
    /\ pc = "idle"
    /\ calls < MaxCalls
    /\ calls' = calls + 1
    /\ ResetFields
    /\ stream' = <<>>
    /\ buffer' = <<>>
    /\ \/ /\ SendReset
          /\ pc' = "reset_recv"
          /\ UNCHANGED <<last, any_raised>>
       \/ /\ peer_closed
          /\ call' = NewCall
          /\ Raise("reset", "BrokenPipeError", "none")
          /\ UNCHANGED pending
    /\ UNCHANGED <<task, wire, peer_closed, ctrl_msgs, sockets, pre, scored,
                   episode_stable>>

\* reset(): one turn of the outer loop: recv, buffer += data, the inner loop
ResetRecv ==
    /\ pc = "reset_recv"
    /\ RecvEnabled
    /\ \E n \in RecvLengths :
       LET data == SubSeq(wire, 1, n)
       IN  \E scan \in {ScanLines(buffer \o data)} :
           /\ wire' = SubSeq(wire, n + 1, Len(wire))
           /\ stream' = stream \o data
           /\ buffer' = scan.buffer
           /\ IF scan.result = "ack"
              THEN /\ last' = Returned("reset", FALSE, 0, "reset")
                   /\ call' = [call EXCEPT !.docs = 1, !.eof = (call.eof \/ n = 0)]
                   /\ pending' = pending - 1
                   /\ pc' = "idle"
                   /\ episode_stable' = FALSE
                   /\ UNCHANGED any_raised
              ELSE IF scan.result = "more"
              THEN /\ call' = [call EXCEPT !.eof = (call.eof \/ n = 0)]
                   /\ UNCHANGED <<last, pc, pending, any_raised, episode_stable>>
              ELSE /\ call' = [call EXCEPT !.undecodable = (scan.result = "JSONDecodeError"),
                                           !.eof = (call.eof \/ n = 0)]
                   /\ Raise("reset", scan.result, "reset")
                   /\ UNCHANGED <<pending, episode_stable>>
    /\ UNCHANGED <<task, scoring, peer_closed, calls, ctrl_msgs, sockets, pre, scored>>

\* ------------------------------------------------ NetSpec: the controller
\* what the controller writes in one go: a line of the reset protocol or a
\* bare document
CtrlMessages ==
    {Encode("ack") \o <<NL>>, Encode("ping") \o <<NL>>, Encode("list") \o <<NL>>,
     <<NL>>, <<SP, NL>>, <<JUNK, NL>>,
     Encode("obs_level"), Encode("obs_tilted"), Encode("obs_wide")}

CtrlSend(m) ==
    /\ pc # "idle"
    /\ ~peer_closed
    /\ ctrl_msgs < MaxCtrlMsgs
    /\ ctrl_msgs' = ctrl_msgs + 1
    /\ wire' = wire \o m
    /\ UNCHANGED <<task, scoring, last, pc, buffer, peer_closed, stream, call, pending,
                   any_raised, calls, sockets, pre, scored, episode_stable>>

CtrlClose ==
    /\ ~peer_closed
    /\ peer_closed' = TRUE
    /\ UNCHANGED <<task, scoring, last, pc, wire, buffer, stream, call, pending,
                   any_raised, calls, ctrl_msgs, sockets, pre, scored, episode_stable>>

NetNext ==
    \/ StepSend
    \/ StepRecv
    \/ ResetSend
    \/ ResetRecv
    \/ \E m \in CtrlMessages : CtrlSend(m)
    \/ CtrlClose

NetSpec == Init /\ [][NetNext]_vars

\* --------------------------------------------------- CloseSpec: close()
\* __init__ can be left at three places: before socket() (line 58), between
\* it and the return of accept() (line 66), and at its end.  The scoring
\* fields are assigned last (lines 72-76); before that they stand at the
\* values they will get, and only reset() writes them.
CloseInit ==
    /\ task \in Tasks
    /\ \E stage \in {<<"absent", "absent">>, <<"absent", "open">>, <<"open", "open">>} :
          conn = stage[1] /\ sock = stage[2]
    /\ closes = 0
    /\ prev_com = None
    /\ is_tilted = TRUE
    /\ stable_counter = 0
    /\ total_steps = 0
    /\ last = NoCall
    /\ pc = "idle"
    /\ wire = <<>>
    /\ buffer = <<>>
    /\ peer_closed = FALSE
    /\ stream = <<>>
    /\ call = NewCall
    /\ pending = 0
    /\ any_raised = FALSE
    /\ calls = 0
    /\ ctrl_msgs = 0
    /\ pre = [prev_com |-> None, is_tilted |-> TRUE, stable_counter |-> 0]
    /\ scored = None
    /\ episode_stable = FALSE

\* socket.close(): releases an open socket, does nothing on a closed one
SocketClose(s) == IF s = "open" THEN "closed" ELSE s

\* close() without the hasattr guards
Close_unguarded ==
    /\ closes < MaxCloses
    /\ closes' = closes + 1
    /\ IF conn = "absent"
       THEN /\ last' = Raised("close", "AttributeError", "none")
            /\ UNCHANGED <<conn, sock>>
       ELSE /\ conn' = SocketClose(conn)
            /\ sock' = SocketClose(sock)
            /\ last' = Returned("close", FALSE, 0, "none")
    /\ UNCHANGED <<task, scoring, pc, wire, buffer, peer_closed, stream, call, pending,
                   any_raised, calls, ctrl_msgs, pre, scored, episode_stable>>

\* close(): each socket is closed if the attribute exists
Close ==
    /\ closes < MaxCloses
    /\ closes' = closes + 1
    /\ conn' = IF conn # "absent" THEN SocketClose(conn) ELSE conn
    /\ sock' = IF sock # "absent" THEN SocketClose(sock) ELSE sock
    /\ last' = Returned("close", FALSE, 0, "none")
    /\ UNCHANGED <<task, scoring, pc, wire, buffer, peer_closed, stream, call, pending,
                   any_raised, calls, ctrl_msgs, pre, scored, episode_stable>>

\* self.conn.sendall(...) with no connection or a closed one
ConnError == IF conn = "absent" THEN "AttributeError" ELSE "OSError"

\* step() failing at its sendall
StepNoConn ==
    /\ conn # "open"
    /\ last' = Raised("step", ConnError, "none")
    /\ UNCHANGED <<task, scoring, net, pre, scored, episode_stable>>

\* reset() failing at its sendall, after its two assignments
ResetNoConn ==
    /\ conn # "open"
    /\ ResetFields
    /\ last' = Raised("reset", ConnError, "none")
    /\ UNCHANGED <<task, net, pre, scored, episode_stable>>

CloseNext ==
    \/ Close
    \/ \E obs \in EpisodeReplies : conn = "open" /\ total_steps < MaxCloseSteps /\ Step(obs)
    \/ conn = "open" /\ Reset
    \/ StepNoConn
    \/ ResetNoConn

CloseSpec == CloseInit /\ [][CloseNext]_vars

\* ===================================================================== claims
StepReturned == last.op = "step" /\ last.outcome = "returned"
ResetReturned == last.op = "reset" /\ last.outcome = "returned"
\* a transition that is a call of step()
StepCall == last'.op = "step" /\ vars' # vars
\* the lidar height channel's distance from the stand_up target
HeightDiff(obs) == Abs(At(Sanitize(obs.lidar), 1) - h_base_stand)

\* C1: a reset() that returns leaves the scoring state at its initial values:
\* prev_com unset, is_tilted true, stable_counter 0, total_steps 0.
C1_ResetRestoresScoringState ==
    ResetReturned =>
        /\ prev_com = None
        /\ is_tilted = TRUE
        /\ stable_counter = 0
        /\ total_steps = 0

\* C2: in an episode in which the stability condition never held, a step
\* returns done = true exactly when it is the max_steps-th step of the
\* episode, and done = false on every earlier step.
C2_DoneExactlyAtMaxSteps ==
    (StepReturned /\ ~episode_stable /\ total_steps <= max_steps) =>
        (last.done <=> total_steps = max_steps)

\* C3: the done flag a step returns is the termination condition evaluated
\* on the scoring state as that step leaves it, total_steps included.
C3_DoneOnUpdatedState ==
    StepReturned =>
        (last.done <=> (total_steps >= max_steps
                        \/ (stable_counter >= stability_threshold /\ is_tilted = FALSE)))

\* C4: in a stand_up environment stable_counter never exceeds total_steps,
\* and a scoring whose height difference is above 1 leaves stable_counter 0.
C4_StableCounterWithinSteps ==
    task = "stand_up" =>
        /\ stable_counter <= total_steps
        /\ (last.op = "step" /\ HeightDiff(scored) > 100) => stable_counter = 0

\* C5: a step() called after a step() returned done = true, with no reset()
\* in between, fails with a protocol error and sends no Action.
C5_StepAfterDoneRejected ==
    [][(StepReturned /\ last.done /\ StepCall) =>
          (last'.outcome = "ProtocolError" /\ last'.sent = "none")]_vars

\* C8: with task climb, a step() scored while prev_com is unset raises an
\* error to its caller; it does not return any reward.
C8_ClimbFirstStepRaises ==
    [][(task = "climb" /\ prev_com = None /\ StepCall) =>
          (last'.outcome = "TypeError" /\ prev_com' = None)]_vars

C8_Witness ==
    task = "climb" /\ last.op = "step" /\ last.outcome = "TypeError" /\ prev_com = None

ScoreReturned == last.op = "score" /\ last.outcome = "returned"
\* the height term of the stand_up reward returned last: the reward less the
\* joint and tilt terms of the observation scored
HeightTermReturned ==
    last.reward - JointTotal[scored.joint_sensors]
        - TiltTerm(At(scored.imu, 0), At(scored.imu, 1)).reward
\* the penalty the code gives inside the middle band (diff = 2)
MidBandPenalty == HeightTerm(200, 0, TRUE).reward

\* C10: stand_up height bands: diff <= 1 gives a positive term and increments
\* stable_counter; 1 < diff <= 4 gives a penalty and stable_counter 0;
\* diff > 4 gives a penalty larger in magnitude than the middle band's and
\* stable_counter 0.
C10_HeightBands ==
    (task = "stand_up" /\ ScoreReturned) =>
        LET diff == HeightDiff(scored)
            ht == HeightTermReturned
        IN  /\ diff <= 100 => (ht > 0 /\ stable_counter = pre.stable_counter + 1)
            /\ (100 < diff /\ diff <= 400) => (ht < 0 /\ stable_counter = 0)
            /\ diff > 400 => (ht < 0 /\ Abs(ht) > Abs(MidBandPenalty)
                              /\ stable_counter = 0)

\* the complete (newline-terminated) lines of text t, in order
RECURSIVE CompleteLines(_)
CompleteLines(t) ==
    LET i == FindNL(t, 1)
    IN  IF i = 0 THEN <<>>
        ELSE <<SubSeq(t, 1, i - 1)>> \o CompleteLines(SubSeq(t, i + 1, Len(t)))
LineKind(line) ==
    IF Strip(line) = <<>> THEN "blank"
    ELSE IF ~json_loads(line).ok THEN "undecodable"
    ELSE IF IsDict(json_loads(line).doc) /\ StatusOf(json_loads(line).doc) = "reset_complete"
    THEN "ack"
    ELSE "other"
\* line i of ls is of kind k and only blank lines and other documents precede it
FirstOfKind(ls, i, k) ==
    /\ LineKind(ls[i]) = k
    /\ \A j \in 1..(i - 1) : LineKind(ls[j]) \in {"blank", "other"}

\* C6: reset() sends exactly one reset command; it returns only once the
\* bytes it has read hold a complete line that is a reset_complete document,
\* and blank lines and other documents read before that line, however the
\* reads cut the stream, neither end the wait nor raise an error.
C6_ResetHandshake ==
    LET ls == CompleteLines(stream)
    IN  /\ pc = "reset_recv" =>
              /\ call.sends = 1
              /\ \A i \in 1..Len(ls) : LineKind(ls[i]) \in {"blank", "other"}
        /\ (pc = "idle" /\ ResetReturned) =>
              /\ call.sends = 1
              /\ \E i \in 1..Len(ls) : FirstOfKind(ls, i, "ack")
        /\ (pc = "idle" /\ last.op = "reset"
               /\ last.outcome \notin {"returned", "BrokenPipeError"}) =>
              \E i \in 1..Len(ls) : FirstOfKind(ls, i, "undecodable")

\* the spec's scenario: {"ping":1}\n{"status":"reset_complete"}\n
C6_Witness ==
    /\ pc = "idle"
    /\ ResetReturned
    /\ stream = Encode("ping") \o <<NL>> \o Encode("ack") \o <<NL>>

\* C7: a step() or reset() that reads end-of-stream or an undecodable
\* payload while waiting for its reply ends by raising to its caller.
C7_FailureRaises ==
    (call.eof \/ call.undecodable) =>
        (pc = "idle" /\ last.outcome \notin {"none", "returned"})

TiltTermReturned ==
    last.reward - JointTotal[scored.joint_sensors]
        - HeightTerm(HeightDiff(scored), pre.stable_counter, pre.is_tilted).reward
\* the larger of |roll| and |pitch| of the observation scored
TiltOfScored == Max(Abs(At(scored.imu, 0)), Abs(At(scored.imu, 1)))

\* C11 as stated: is_tilted is false iff |roll| and |pitch| are both <= 0.1,
\* and the tilt term goes by the inclusive thresholds 0.1 / 0.3 / 0.6.
C11_TiltTiersInclusive ==
    (task = "stand_up" /\ ScoreReturned) =>
        LET a == TiltOfScored
            tt == TiltTermReturned
        IN  /\ is_tilted = FALSE <=> a <= 10
            /\ a <= 10 => tt = 2 * RewardScale
            /\ (10 < a /\ a <= 30) => tt = RewardScale
            /\ (30 < a /\ a <= 60) => tt = -RewardScale
            /\ a > 60 => tt = -(3 * RewardScale)

\* C11 amended: the thresholds are exclusive: is_tilted is false iff |roll|
\* and |pitch| are both < 0.1; the tilt term is strong positive below 0.1,
\* mild positive below 0.3, a mild penalty below 0.6, a strong penalty from
\* 0.6 on, with is_tilted true in every tier but the first.
C11_TiltTiersExclusive ==
    (task = "stand_up" /\ ScoreReturned) =>
        LET a == TiltOfScored
            tt == TiltTermReturned
        IN  /\ is_tilted = FALSE <=> a < 10
            /\ a < 10 => tt = 2 * RewardScale
            /\ (10 <= a /\ a < 30) => tt = RewardScale
            /\ (30 <= a /\ a < 60) => tt = -RewardScale
            /\ a >= 60 => tt = -(3 * RewardScale)

\* roll exactly 0.1 rad, pitch 0: scored as tilted, mild positive
C11_Witness ==
    /\ task = "stand_up"
    /\ ScoreReturned
    /\ At(scored.imu, 0) = 10 /\ At(scored.imu, 1) = 0
    /\ is_tilted = TRUE
    /\ TiltTermReturned = RewardScale

\* C15: with task walk the reward scoring returns lies in [0, 1], whatever
\* the com height, the tilt angle and the six contact readings.
C15_WalkRewardInUnitRange ==
    (task = "walk" /\ last.op = "score") =>
        (ScoreReturned /\ 0 <= last.reward /\ last.reward <= RewardScale)

\* both clamps active: height and tilt far outside, the contacts alone score
C15_Witness ==
    /\ task = "walk" /\ ScoreReturned
    /\ At(scored.com, 2) = 500 /\ At(scored.imu, 0) = -200
    /\ scored.foot_contacts = FeetNoisy
    /\ last.reward = 3 * (RewardScale \div 30)

\* C16: whatever the task, a scoring of an observation with all its fields
\* leaves prev_com at that observation's com, and an unspecified task
\* scores 0.
C16_PrevComAlwaysSet ==
    (last.op = "score" /\ Len(scored.joint_sensors) = 18) =>
        /\ prev_com = scored.com
        /\ task = "other" => (ScoreReturned /\ last.reward = 0)

\* the scenario's observation: lidar height 3.0, roll = pitch = 0, every
\* joint inside its band
IdealStandUp(obs) ==
    /\ Len(obs.joint_sensors) = 18
    /\ \A i \in 0..17 : JointReward(i, At(obs.joint_sensors, i)) > 0
    /\ At(obs.lidar, 1) = h_base_stand
    /\ At(obs.imu, 0) = 0 /\ At(obs.imu, 1) = 0

\* C17: with task stand_up, from any scoring state, scoring the scenario's
\* observation returns a reward above 0, leaves is_tilted false and
\* stable_counter one above its value before.
C17_IdealStandUp ==
    (task = "stand_up" /\ last.op = "score" /\ IdealStandUp(scored)) =>
        /\ ScoreReturned /\ last.reward > 0
        /\ is_tilted = FALSE
        /\ stable_counter = pre.stable_counter + 1

C17_Witness ==
    /\ task = "stand_up" /\ ScoreReturned /\ IdealStandUp(scored)
    /\ scored.joint_sensors = JointsNearEdge
    /\ pre.is_tilted = TRUE /\ pre.stable_counter = 2 /\ stable_counter = 3

\* a transition that is a call of reset()
ResetCall == last'.op = "reset" /\ vars' # vars

\* C13: total_steps goes up by exactly 1 on a step() that completes, stays
\* as it is on a step() that does not, and becomes 0 on reset() and on
\* nothing else; so it counts the steps completed since the last reset().
C13_TotalStepsCounts ==
    [][/\ (StepCall /\ last'.outcome = "returned") => total_steps' = total_steps + 1
       /\ (StepCall /\ last'.outcome # "returned") => total_steps' = total_steps
       /\ ResetCall => total_steps' = 0
       /\ total_steps' < total_steps => ResetCall]_vars

C13_Witness ==
    task = "walk" /\ StepReturned /\ total_steps = 3

\* C18: with a task other than stand_up, is_tilted stays true and
\* stable_counter stays 0 from construction on, the stability condition
\* never holds, and a step() returns done = true only when the count of
\* steps before it had reached max_steps.
C18_OnlyStepCountEnds ==
    task # "stand_up" =>
        /\ is_tilted = TRUE /\ stable_counter = 0
        /\ ~episode_stable
        /\ (StepReturned /\ last.done) => total_steps - 1 >= max_steps

C18_Witness ==
    task = "walk" /\ StepReturned /\ last.done /\ total_steps = max_steps + 1
        /\ At(scored.imu, 0) = 0 /\ is_tilted = TRUE

\* C12: a step() that returns hands back an observation of flattened length
\* OBS_SPACE_SIZE; a reply that flattens to another length is not returned.
C12_ObservationLength ==
    StepReturned => Len(Flatten(scored)) = OBS_SPACE_SIZE

\* C19: what reset() read beyond the ack line stays in its local buffer and
\* is gone with it: the step() after it decodes exactly the bytes its own
\* recv took off the connection, after its Action was sent, and its outcome
\* is that of decoding those bytes alone.
C19_StepDecodesOwnRead ==
    [][(pc = "step_recv" /\ pc' = "idle") =>
          LET msg == json_loads(stream')
          IN  /\ stream' \o wire' = wire
              /\ call.sends = 1
              /\ (last'.outcome = "JSONDecodeError") <=> ~msg.ok
              /\ last'.outcome = "returned" =>
                    (HasObsKeys(msg.doc) /\ scored' = ObsOf(msg.doc))]_vars

\* reset() read the ack line and the first half of a reply in one recv; the
\* step() after it read the second half and failed to decode it
C19_Witness ==
    /\ pc = "idle" /\ last.op = "step" /\ last.outcome = "JSONDecodeError"
    /\ buffer = <<Sym("obs_level", 1)>>
    /\ stream = <<Sym("obs_level", 2)>>

\* a transition that is a call of close()
CloseCall == closes' = closes + 1

\* C14: close() returns without an error however often it is called and in
\* whatever state, also when no connection or no socket was ever created;
\* after it neither the connection nor the listening socket is open, and a
\* call after the first changes nothing.
C14_CloseIdempotent ==
    [][CloseCall =>
          /\ last' = Returned("close", FALSE, 0, "none")
          /\ conn' # "open" /\ sock' # "open"
          /\ closes >= 1 => (conn' = conn /\ sock' = sock)
          /\ UNCHANGED <<task, scoring>>]_vars

\* closed twice with the listening socket created but no controller connected
C14_Witness ==
    /\ closes = 2 /\ last = Returned("close", FALSE, 0, "none")
    /\ conn = "absent" /\ sock = "closed"

====
